---------------------------- MODULE Spec2Model ----------------------------
(* A model of the retry token bucket (standard_token_bucket.rs), of the     *)
(* controlled time / sleep gate test utilities (test_util.rs), of the       *)
(* presigning configuration (presigning.rs), of the interceptors of one     *)
(* call (interceptors.rs) and of the layers of the token bucket plugin.     *)
EXTENDS Integers, Sequences, FiniteSets, TLC

(***************************************************************************)
(* Bounds of the model                                                     *)
(***************************************************************************)
\* Buckets built with new(C) are explored for every C in 0..MaxCapacity.
MaxCapacity == 21
\* At most this many permits are put back by regenerate_a_token in one run.
MaxRegen == 7
\* At most this many sleeps are issued in one run, all producers together.
MaxSleeps == 3

(***************************************************************************)
(* Program constants, standard_token_bucket.rs:38-41                       *)
(***************************************************************************)
DEFAULT_CAPACITY == 500
RETRY_COST == 5
RETRY_TIMEOUT_COST == RETRY_COST * 2
PERMIT_REGENERATION_AMOUNT == 1

\* aws_smithy_types::retry::ErrorKind
ErrorKinds == {"TransientError", "ThrottlingError", "ServerError", "ClientError"}

Costs == {RETRY_COST, RETRY_TIMEOUT_COST}

\* Callers sharing one bucket in the concurrent specification.
Callers == {"c1", "c2"}

\* Tasks that may hold a clone of the ControlledSleep.
Producers == {"p1", "p2"}
\* The controller, as a party of the barrier.
Gate == "gate"
\* Barrier::new(2), test_util.rs:53
BARRIER_PARTIES == 2
\* Duration::from_secs(123456), test_util.rs:155
SENTINEL_SECS == 123456
\* Durations (seconds) a producer passes to sleep.
Durations == {1, 2}
\* Start times handed to controlled_time_and_sleep.
StartTimes == {0, 1000}

VARIABLES
    max_permits,   \* StandardTokenBucket.max_permits
    permits,       \* available permits of StandardTokenBucket.semaphore
    held,          \* outstanding OwnedSemaphorePermit grants: cost -> how many
    regenerated,   \* permits put back by regenerate_a_token so far
    ret,           \* the last completed call: what it was and what it returned
    cpc            \* concurrent callers: position inside regenerate_a_token

bucketVars == <<max_permits, permits, held, regenerated, ret, cpc>>

VARIABLES
    tasks,         \* the producer tasks, each with a clone of the ControlledSleep
    start_time,    \* ManualTimeSource.start_time
    log,           \* the shared log: Arc<Mutex<Vec<Duration>>>
    pending,       \* ControlledSleep.duration / SleepGate.pending: Option<Duration>
    advance_guard, \* the shared advance_guard: Option<oneshot::Sender<()>>
    guard_poisoned,\* the advance_guard mutex was held by a thread that panicked
    arrived,       \* the barrier: waits counted in the current generation
    woken,         \* parties whose barrier wait was released, not yet resumed
    dropped,       \* oneshot channels whose Sender was dropped
    ppc,           \* producer -> position in the task
    pdurs,         \* producer -> the durations it passed to sleep, in order
    pnow,          \* producer -> the last value it read from now()
    gpc,           \* the controller's position
    gdur,          \* expect_sleep's local dur
    captured,      \* the CapturedSleep the controller holds, if any
    returned,      \* every CapturedSleep expect_sleep returned, in order
    released       \* the channels of every CapturedSleep let go

gateVars == <<tasks, start_time, log, pending, advance_guard, guard_poisoned,
              arrived, woken, dropped, ppc, pdurs, pnow, gpc, gdur, captured,
              returned, released>>

VARIABLES
    b_live,        \* a PresigningConfigBuilder exists (build consumes it)
    builder,       \* the PresigningConfigBuilder: start_time, expires_in
    built,         \* the last build(): the builder it consumed and the Result
    shortcut       \* the last PresigningConfig::expires_in(d): d and the Result

presignVars == <<b_live, builder, built, shortcut>>

VARIABLES
    client_hooks,  \* interceptors registered on the client Config, in order
    call_hooks,    \* interceptors and closures registered by customize(), in order
    phase,         \* where the call is: config, customize, signing, sent, failed
    idx,           \* before signing: the next hook of the pipeline to run
    request_time,  \* the request time in the ConfigBag: Option<SystemTime>
    headers,       \* the headers of the request in flight
    ran,           \* the hooks run in this call, in order: <<scope, position>>
    sent,          \* the request as transmitted: its time and headers
    fixup          \* FixupPlugin.timestamp of the call: Option<SystemTime>

callVars == <<client_hooks, call_hooks, phase, idx, request_time, headers, ran,
              sent, fixup>>

VARIABLES
    token_bucket,  \* StandardTokenBucketRuntimePlugin.token_bucket
    semaphores,    \* the Semaphores allocated: Arc pointer -> available permits
    layers,        \* the FrozenLayers config() has returned, in order
    pret           \* the last call on the plugin or through a layer

pluginVars == <<token_bucket, semaphores, layers, pret>>

vars == <<bucketVars, gateVars, presignVars, callVars, pluginVars>>

(***************************************************************************)
(* StandardTokenBucket                                                     *)
(***************************************************************************)
\* The fields new() and default() set from the constants.
retry_cost == RETRY_COST
timeout_retry_cost == RETRY_TIMEOUT_COST

\* Capacities a bucket is built with: new(C), or default().
Capacities == (0 .. MaxCapacity) \cup {DEFAULT_CAPACITY}

NoCall == [op |-> "none", err |-> "-", cost |-> 0, granted |-> FALSE, before |-> 0]

\* new(initial_quota) / default(): a full bucket, nothing held.
NewBucket(initial_quota) ==
    /\ max_permits = initial_quota
    /\ permits = initial_quota
    /\ held = [c \in Costs |-> 0]
    /\ regenerated = 0
    /\ ret = NoCall
    /\ cpc = [c \in Callers |-> "idle"]

\* Mutant: every error kind is charged the plain retry cost.
AcquireCostFlat(err) == retry_cost

\* acquire, lines 77-81: the cost of the attempt.
AcquireCost(err) ==
    IF err = "TransientError" THEN timeout_retry_cost ELSE retry_cost

\* Mutant: an attempt that cannot be paid in full takes what is left.
TryAcquireManyPartial(avail, n) ==
    IF avail >= n THEN [ok |-> TRUE, avail |-> avail - n]
                  ELSE [ok |-> (avail > 0), avail |-> 0]

\* Mutant: the comparison is strict, the last affordable attempt is refused.
TryAcquireManyStrict(avail, n) ==
    IF avail > n THEN [ok |-> TRUE, avail |-> avail - n]
                 ELSE [ok |-> FALSE, avail |-> avail]

\* Semaphore::try_acquire_many_owned(n), acquire lines 83-86: all n permits
\* at once or none, and no waiting.
TryAcquireMany(avail, n) ==
    IF avail >= n THEN [ok |-> TRUE, avail |-> avail - n]
                  ELSE [ok |-> FALSE, avail |-> avail]

\* Mutant: the capacity check is missing.
NeedsTokenAlways(avail, max) == TRUE

\* regenerate_a_token, line 90: the guard.
NeedsToken(avail, max) == avail < max

\* Mutant: the bucket is refilled at once.
AddPermitsRefill(avail, max) == max

\* regenerate_a_token, line 92: Semaphore::add_permits(1).
AddPermits(avail, max) == avail + PERMIT_REGENERATION_AMOUNT

\* A whole acquire(err) call.
Acquire(err) ==
    LET cost == AcquireCost(err)
        r    == TryAcquireMany(permits, cost)
    IN  /\ permits' = r.avail
        /\ held' = IF r.ok THEN [held EXCEPT ![cost] = @ + 1] ELSE held
        /\ ret' = [op |-> "acquire", err |-> err, cost |-> cost,
                   granted |-> r.ok, before |-> permits]
        /\ UNCHANGED <<max_permits, regenerated, cpc>>
        /\ UNCHANGED <<gateVars, presignVars, callVars, pluginVars>>

\* A whole regenerate_a_token() call, nothing running between its steps.
Regenerate ==
    /\ NeedsToken(permits, max_permits) => regenerated < MaxRegen
    /\ IF NeedsToken(permits, max_permits)
       THEN /\ permits' = AddPermits(permits, max_permits)
            /\ regenerated' = regenerated + (permits' - permits)
       ELSE UNCHANGED <<permits, regenerated>>
    /\ ret' = [op |-> "regenerate", err |-> "-", cost |-> 0,
               granted |-> FALSE, before |-> permits]
    /\ UNCHANGED <<max_permits, held, cpc>>
    /\ UNCHANGED <<gateVars, presignVars, callVars, pluginVars>>

\* The caller drops a grant acquire returned: the OwnedSemaphorePermit gives
\* the permits it holds back to the semaphore.
DropGrant(cost) ==
    /\ held[cost] > 0
    /\ held' = [held EXCEPT ![cost] = @ - 1]
    /\ permits' = permits + cost
    /\ ret' = [op |-> "drop", err |-> "-", cost |-> cost,
               granted |-> FALSE, before |-> permits]
    /\ UNCHANGED <<max_permits, regenerated, cpc>>
    /\ UNCHANGED <<gateVars, presignVars, callVars, pluginVars>>

\* Callers that passed the guard of regenerate_a_token and have not added yet.
Adding == {c \in Callers : cpc[c] = "regen_add"}

\* acquire(err) by one of several callers: try_acquire_many_owned is one
\* atomic step of the semaphore.
CAcquire(c, err) ==
    /\ cpc[c] = "idle"
    /\ Acquire(err)

\* regenerate_a_token by caller c, line 90: the read of available_permits().
\* Other callers run between this read and the add_permits of line 92.
CRegenCheck(c) ==
    /\ cpc[c] = "idle"
    /\ IF NeedsToken(permits, max_permits)
       THEN /\ regenerated + Cardinality(Adding) < MaxRegen
            /\ cpc' = [cpc EXCEPT ![c] = "regen_add"]
            /\ UNCHANGED ret
       ELSE /\ ret' = [op |-> "regenerate", err |-> "-", cost |-> 0,
                       granted |-> FALSE, before |-> permits]
            /\ UNCHANGED cpc
    /\ UNCHANGED <<max_permits, permits, held, regenerated>>
    /\ UNCHANGED <<gateVars, presignVars, callVars, pluginVars>>

\* regenerate_a_token by caller c, line 92: add_permits(1).
CRegenAdd(c) ==
    /\ cpc[c] = "regen_add"
    /\ permits' = AddPermits(permits, max_permits)
    /\ regenerated' = regenerated + (permits' - permits)
    /\ cpc' = [cpc EXCEPT ![c] = "idle"]
    /\ ret' = [op |-> "regenerate", err |-> "-", cost |-> 0,
               granted |-> FALSE, before |-> permits]
    /\ UNCHANGED <<max_permits, held>>
    /\ UNCHANGED <<gateVars, presignVars, callVars, pluginVars>>

(***************************************************************************)
(* Presigning configuration, presigning.rs                                 *)
(***************************************************************************)
\* std::time::Duration: whole seconds and the nanoseconds below one second.
Dur(s, n) == [secs |-> s, nanos |-> n]

\* const ONE_WEEK: Duration = Duration::from_secs(604800), line 11
ONE_WEEK == Dur(604800, 0)

\* Durations handed to expires_in: around one week, to the nanosecond.
ExpiresIns ==
    {Dur(s, n) : s \in {0, 604799, 604800, 604801}, n \in {0, 1, 999999999}}

\* SystemTime values handed to start_time.
PresignStartTimes == {0, 1000}

\* Values SystemTime::now() returns when build reads the clock.
SystemNows == {2000, 3000}

\* Mutant: the bound itself is refused.
DurGe(a, b) == a.secs > b.secs \/ (a.secs = b.secs /\ a.nanos >= b.nanos)

\* Duration's derived ordering, the > of line 146: seconds, then nanoseconds.
DurGt(a, b) == a.secs > b.secs \/ (a.secs = b.secs /\ a.nanos > b.nanos)

\* Result<PresigningConfig, PresigningConfigError>
Ok(st, e) == [ok |-> TRUE, kind |-> "-", start_time |-> st, expires_in |-> e]

Err(k) == [ok |-> FALSE, kind |-> k, start_time |-> 0, expires_in |-> Dur(0, 0)]

\* PresigningConfigBuilder::default(), line 87: both fields None.
BuilderDefault == [start_time |-> {}, expires_in |-> {}]

\* set_start_time, lines 113-115
SetStartTime(b, opt) == [b EXCEPT !.start_time = opt]

\* start_time, lines 101-104
StartTime(b, t) == SetStartTime(b, {t})

\* set_expires_in, lines 138-140
SetExpiresIn(b, opt) == [b EXCEPT !.expires_in = opt]

\* expires_in, lines 125-128
ExpiresIn(b, d) == SetExpiresIn(b, {d})

\* PresigningConfigBuilder::build, lines 144-153, with the clock reading
\* clock if it is asked.
BuildResult(b, clock) ==
    IF b.expires_in = {} THEN Err("ExpiresInRequired")
    ELSE LET expires_in == CHOOSE d \in b.expires_in : TRUE
         IN  IF DurGt(expires_in, ONE_WEEK)
             THEN Err("ExpiresInDurationTooLong")
             ELSE Ok(IF b.start_time = {} THEN clock
                     ELSE CHOOSE t \in b.start_time : TRUE, expires_in)

\* No builder made and nothing built yet.
NewPresign ==
    /\ b_live = FALSE
    /\ builder = BuilderDefault
    /\ built = [via |-> "none", of |-> BuilderDefault, res |-> Err("-")]
    /\ shortcut = [expires_in |-> {}, res |-> Err("-")]

\* PresigningConfig::builder(), lines 35-37
PresignBuilder ==
    /\ builder' = BuilderDefault
    /\ b_live' = TRUE
    /\ UNCHANGED <<built, shortcut, bucketVars, gateVars, callVars, pluginVars>>

\* builder.start_time(t)
BuilderStartTime(t) ==
    /\ b_live
    /\ builder' = StartTime(builder, t)
    /\ UNCHANGED <<b_live, built, shortcut, bucketVars, gateVars, callVars, pluginVars>>

\* builder.set_start_time(opt)
BuilderSetStartTime(opt) ==
    /\ b_live
    /\ builder' = SetStartTime(builder, opt)
    /\ UNCHANGED <<b_live, built, shortcut, bucketVars, gateVars, callVars, pluginVars>>

\* builder.expires_in(d)
BuilderExpiresIn(d) ==
    /\ b_live
    /\ builder' = ExpiresIn(builder, d)
    /\ UNCHANGED <<b_live, built, shortcut, bucketVars, gateVars, callVars, pluginVars>>

\* builder.set_expires_in(opt)
BuilderSetExpiresIn(opt) ==
    /\ b_live
    /\ builder' = SetExpiresIn(builder, opt)
    /\ UNCHANGED <<b_live, built, shortcut, bucketVars, gateVars, callVars, pluginVars>>

\* builder.build(): the builder is consumed.
Build ==
    /\ b_live
    /\ \E clock \in SystemNows :
          built' = [via |-> "build", of |-> builder, res |-> BuildResult(builder, clock)]
    /\ b_live' = FALSE
    /\ builder' = BuilderDefault
    /\ UNCHANGED <<shortcut, bucketVars, gateVars, callVars, pluginVars>>

\* PresigningConfig::expires_in(d), lines 30-32:
\* Self::builder().expires_in(expires_in).build()
ConfigExpiresIn(d) ==
    /\ \E clock \in SystemNows :
          shortcut' = [expires_in |-> {d},
                       res |-> BuildResult(ExpiresIn(BuilderDefault, d), clock)]
    /\ UNCHANGED <<b_live, builder, built, bucketVars, gateVars, callVars, pluginVars>>

(***************************************************************************)
(* ManualTimeSource, ControlledSleep, SleepGate, CapturedSleep             *)
(***************************************************************************)
RECURSIVE SumDurations(_)
\* iter().sum::<Duration>() of line 27
SumDurations(ds) ==
    IF ds = <<>> THEN 0 ELSE ds[1] + SumDurations(Tail(ds))

\* Mutant: only the last recorded duration is added to the start time.
nowLast(start, lg) == start + (IF lg = <<>> THEN 0 ELSE lg[Len(lg)])

\* ManualTimeSource::now, lines 26-28
now(start, lg) == start + SumDurations(lg)

\* What a call of now() returns in the current state.
Now == now(start_time, log)

\* Mutant: the duration is recorded twice.
LogPushTwice(lg, d) == Append(Append(lg, d), d)

\* log.lock().unwrap().push(duration), line 179
LogPush(lg, d) == Append(lg, d)

\* Mutant: the receiver never resolves.
RxResolvedNever(ch, gone) == FALSE

\* Mutant: the sleep does not wait for its receiver.
RxResolvedAtOnce(ch, gone) == TRUE

\* rx.await of line 180 resolves once the Sender of the channel is dropped
\* (nothing ever sends on it).
RxResolved(ch, gone) == ch \in gone

\* Mutant: the barrier is built for one party, every wait passes at once.
BarrierFullAlways(n) == TRUE

\* Barrier::wait: the wait that makes the count reach the number of parties
\* releases the generation.
BarrierFull(n) == n + 1 = BARRIER_PARTIES

\* Mutant: the default is returned whatever the slot holds.
UnwrapOrDefault(slot, default) == default

\* Option::unwrap_or of line 155
UnwrapOr(slot, default) == IF slot = {} THEN default ELSE CHOOSE d \in slot : TRUE

\* controlled_time_and_sleep(start) with the producer tasks ts spawned, each
\* holding a clone of the ControlledSleep: lines 52-69 and 189-195.
NewGate(ts, start) ==
    /\ tasks = ts
    /\ start_time = start
    /\ log = <<>>
    /\ pending = {}
    /\ advance_guard = {}
    /\ guard_poisoned = FALSE
    /\ arrived = 0
    /\ woken = {}
    /\ dropped = {}
    /\ ppc = [p \in Producers |-> "run"]
    /\ pdurs = [p \in Producers |-> <<>>]
    /\ pnow = [p \in Producers |-> start]
    /\ gpc = "idle"
    /\ gdur = 0
    /\ captured = {}
    /\ returned = <<>>
    /\ released = {}

\* The oneshot channel of the sleep producer p is in: its k-th.
Channel(p) == <<p, Len(pdurs[p])>>

\* Mutant: the duration of the producer's first sleep is used again.
DurationFirst(p) == pdurs[p][1]

\* The duration of the sleep producer p is in.
Duration(p) == pdurs[p][Len(pdurs[p])]

\* Parties blocked in Barrier::wait in the current generation.
Blocked ==
    {p \in tasks : ppc[p] = "barrier_wait" /\ p \notin woken}
        \cup (IF gpc = "wait" /\ Gate \notin woken THEN {Gate} ELSE {})

RECURSIVE CallsOf(_)
\* The sleeps issued so far by the producers of ps.
CallsOf(ps) ==
    IF ps = {} THEN 0
    ELSE LET p == CHOOSE q \in ps : TRUE IN Len(pdurs[p]) + CallsOf(ps \ {p})

SleepCalls == CallsOf(Producers)

\* sleep(duration), lines 166-171: the future is built and awaited.
SleepCall(p, d) ==
    /\ ppc[p] = "run"
    /\ SleepCalls < MaxSleeps
    /\ pdurs' = [pdurs EXCEPT ![p] = Append(@, d)]
    /\ ppc' = [ppc EXCEPT ![p] = "assert"]
    /\ UNCHANGED <<tasks, start_time, log, pending, advance_guard, guard_poisoned,
                   arrived, woken, dropped, pnow, gpc, gdur, captured,
                   returned, released>>
    /\ UNCHANGED <<bucketVars, presignVars, callVars, pluginVars>>

\* line 173: assert!(pending.lock().unwrap().is_none())
SleepAssert(p) ==
    /\ ppc[p] = "assert"
    /\ ppc' = [ppc EXCEPT ![p] = IF pending = {} THEN "store_dur" ELSE "panicked"]
    /\ UNCHANGED <<tasks, start_time, log, pending, advance_guard, guard_poisoned,
                   arrived, woken, dropped, pdurs, pnow, gpc, gdur, captured,
                   returned, released>>
    /\ UNCHANGED <<bucketVars, presignVars, callVars, pluginVars>>

\* line 174: *pending.lock().unwrap() = Some(duration)
SleepStoreDuration(p) ==
    /\ ppc[p] = "store_dur"
    /\ pending' = {Duration(p)}
    /\ ppc' = [ppc EXCEPT ![p] = "store_tx"]
    /\ UNCHANGED <<tasks, start_time, log, advance_guard, guard_poisoned,
                   arrived, woken, dropped, pdurs, pnow, gpc, gdur, captured,
                   returned, released>>
    /\ UNCHANGED <<bucketVars, presignVars, callVars, pluginVars>>

\* lines 175-176: a new oneshot channel, its Sender stored in advance_guard;
\* a Sender already there is dropped by the assignment. lock().unwrap()
\* panics on a poisoned mutex.
SleepArm(p) ==
    /\ ppc[p] = "store_tx"
    /\ IF guard_poisoned
       THEN /\ ppc' = [ppc EXCEPT ![p] = "panicked"]
            /\ UNCHANGED <<advance_guard, dropped>>
       ELSE /\ advance_guard' = {Channel(p)}
            /\ dropped' = dropped \cup advance_guard
            /\ ppc' = [ppc EXCEPT ![p] = "barrier"]
    /\ UNCHANGED <<tasks, start_time, log, pending, guard_poisoned,
                   arrived, woken, pdurs, pnow, gpc, gdur, captured,
                   returned, released>>
    /\ UNCHANGED <<bucketVars, presignVars, callVars, pluginVars>>

\* line 178: barrier.wait(), the arrival.
SleepBarrier(p) ==
    /\ ppc[p] = "barrier"
    /\ IF BarrierFull(arrived)
       THEN /\ arrived' = 0
            /\ woken' = woken \cup Blocked
            /\ ppc' = [ppc EXCEPT ![p] = "push"]
       ELSE /\ arrived' = arrived + 1
            /\ ppc' = [ppc EXCEPT ![p] = "barrier_wait"]
            /\ UNCHANGED woken
    /\ UNCHANGED <<tasks, start_time, log, pending, advance_guard, guard_poisoned,
                   dropped, pdurs, pnow, gpc, gdur, captured, returned, released>>
    /\ UNCHANGED <<bucketVars, presignVars, callVars, pluginVars>>

\* line 178: barrier.wait().await returns to a producer that had to wait.
SleepWake(p) ==
    /\ ppc[p] = "barrier_wait"
    /\ p \in woken
    /\ woken' = woken \ {p}
    /\ ppc' = [ppc EXCEPT ![p] = "push"]
    /\ UNCHANGED <<tasks, start_time, log, pending, advance_guard, guard_poisoned,
                   arrived, dropped, pdurs, pnow, gpc, gdur, captured,
                   returned, released>>
    /\ UNCHANGED <<bucketVars, presignVars, callVars, pluginVars>>

\* line 179: the duration is recorded.
SleepLog(p) ==
    /\ ppc[p] = "push"
    /\ log' = LogPush(log, Duration(p))
    /\ ppc' = [ppc EXCEPT ![p] = "rx"]
    /\ UNCHANGED <<tasks, start_time, pending, advance_guard, guard_poisoned,
                   arrived, woken, dropped, pdurs, pnow, gpc, gdur, captured,
                   returned, released>>
    /\ UNCHANGED <<bucketVars, presignVars, callVars, pluginVars>>

\* line 180: rx.await resolves and sleep(..).await returns.
SleepResume(p) ==
    /\ ppc[p] = "rx"
    /\ RxResolved(Channel(p), dropped)
    /\ ppc' = [ppc EXCEPT ![p] = "resumed"]
    /\ UNCHANGED <<tasks, start_time, log, pending, advance_guard, guard_poisoned,
                   arrived, woken, dropped, pdurs, pnow, gpc, gdur, captured,
                   returned, released>>
    /\ UNCHANGED <<bucketVars, presignVars, callVars, pluginVars>>

\* The producer reads time.now() after the sleep, as in lines 237 and 240.
ProducerNow(p) ==
    /\ ppc[p] = "resumed"
    /\ pnow' = [pnow EXCEPT ![p] = Now]
    /\ ppc' = [ppc EXCEPT ![p] = "run"]
    /\ UNCHANGED <<tasks, start_time, log, pending, advance_guard, guard_poisoned,
                   arrived, woken, dropped, pdurs, gpc, gdur, captured,
                   returned, released>>
    /\ UNCHANGED <<bucketVars, presignVars, callVars, pluginVars>>

\* expect_sleep, line 147: self.gate.wait(), the arrival.
ExpectSleep ==
    /\ gpc = "idle"
    /\ IF BarrierFull(arrived)
       THEN /\ arrived' = 0
            /\ woken' = woken \cup Blocked
            /\ gpc' = "take_dur"
       ELSE /\ arrived' = arrived + 1
            /\ gpc' = "wait"
            /\ UNCHANGED woken
    /\ UNCHANGED <<tasks, start_time, log, pending, advance_guard, guard_poisoned,
                   dropped, ppc, pdurs, pnow, gdur, captured, returned, released>>
    /\ UNCHANGED <<bucketVars, presignVars, callVars, pluginVars>>

\* line 147: the wait returns to a controller that had to wait.
ExpectWake ==
    /\ gpc = "wait"
    /\ Gate \in woken
    /\ woken' = woken \ {Gate}
    /\ gpc' = "take_dur"
    /\ UNCHANGED <<tasks, start_time, log, pending, advance_guard, guard_poisoned,
                   arrived, dropped, ppc, pdurs, pnow, gdur, captured,
                   returned, released>>
    /\ UNCHANGED <<bucketVars, presignVars, callVars, pluginVars>>

\* Mutant: expect_sleep waits on the barrier without a timeout.
ExpectTimeoutNever == FALSE /\ UNCHANGED vars

\* lines 147-149: the second passes with the barrier still closed; the wait
\* future is dropped and expect("timeout") panics. The barrier keeps the
\* arrival it counted.
ExpectTimeout ==
    /\ gpc = "wait"
    /\ Gate \notin woken
    /\ gpc' = "panicked"
    /\ UNCHANGED <<tasks, start_time, log, pending, advance_guard, guard_poisoned,
                   arrived, woken, dropped, ppc, pdurs, pnow, gdur, captured,
                   returned, released>>
    /\ UNCHANGED <<bucketVars, presignVars, callVars, pluginVars>>

\* lines 150-155: pending.take().unwrap_or(123456 s)
ExpectTakeDuration ==
    /\ gpc = "take_dur"
    /\ gdur' = UnwrapOr(pending, SENTINEL_SECS)
    /\ pending' = {}
    /\ gpc' = "take_guard"
    /\ UNCHANGED <<tasks, start_time, log, advance_guard, guard_poisoned,
                   arrived, woken, dropped, ppc, pdurs, pnow, captured,
                   returned, released>>
    /\ UNCHANGED <<bucketVars, presignVars, callVars, pluginVars>>

\* lines 156-161: advance_guard.take().unwrap() and the CapturedSleep
\* returned. unwrap() on an empty slot panics with the mutex guard alive,
\* which poisons the mutex.
ExpectTakeGuard ==
    /\ gpc = "take_guard"
    /\ IF advance_guard = {}
       THEN /\ gpc' = "panicked"
            /\ guard_poisoned' = TRUE
            /\ UNCHANGED <<advance_guard, captured, returned>>
       ELSE LET cs == [tx |-> CHOOSE ch \in advance_guard : TRUE, dur |-> gdur]
            IN  /\ captured' = {cs}
                /\ returned' = Append(returned, cs)
                /\ advance_guard' = {}
                /\ gpc' = "holding"
                /\ UNCHANGED guard_poisoned
    /\ UNCHANGED <<tasks, start_time, log, pending, arrived, woken, dropped,
                   ppc, pdurs, pnow, gdur, released>>
    /\ UNCHANGED <<bucketVars, presignVars, callVars, pluginVars>>

\* Dropping a CapturedSleep drops the Sender it carries.
Release ==
    /\ gpc = "holding"
    /\ \E cs \in captured :
          /\ dropped' = dropped \cup {cs.tx}
          /\ released' = released \cup {cs.tx}
    /\ captured' = {}
    /\ gpc' = "idle"
    /\ UNCHANGED <<tasks, start_time, log, pending, advance_guard, guard_poisoned,
                   arrived, woken, ppc, pdurs, pnow, gdur, returned>>
    /\ UNCHANGED <<bucketVars, presignVars, callVars, pluginVars>>

\* CapturedSleep::allow_progress, lines 125-127: drop(self)
AllowProgress == Release

\* The CapturedSleep goes out of scope.
DropCapturedSleep == Release

(***************************************************************************)
(* Interceptors of one call, interceptors.rs                               *)
(***************************************************************************)
\* At most this many interceptors and closures are registered in one run.
MaxHooks == 3

\* UNIX_EPOCH, in seconds.
UNIX_EPOCH == 0

\* Times a reset interceptor sets; RequestTimeResetInterceptor sets UNIX_EPOCH.
ResetTimes == {UNIX_EPOCH, 50}

\* Durations (seconds) handed to RequestTimeAdvanceInterceptor.
Advances == {3, 7}

\* FixupPlugin.timestamp: a fixed time (line 41) or SystemTime::now() (line 107).
FixupTimestamps == {100, 200}

\* The header names of lines 155-162 and the values the request has before
\* any hook, and after AwsUserAgent::for_tests() is written.
HeaderNames == {"user-agent", "x-amz-user-agent"}

DefaultHeaders == [h \in HeaderNames |-> "sdk"]

\* The interceptors of the tests and the closure handed to mutate_request.
RequestTimeResetInterceptor(t0) == [kind |-> "reset", arg |-> t0]

RequestTimeAdvanceInterceptor(d) == [kind |-> "advance", arg |-> d]

TestUserAgentInterceptor == [kind |-> "user_agent", arg |-> 0]

MutateRequestClosure == [kind |-> "mutate", arg |-> 0]

Interceptors ==
    {RequestTimeResetInterceptor(t0) : t0 \in ResetTimes}
        \cup {RequestTimeAdvanceInterceptor(d) : d \in Advances}
        \cup {TestUserAgentInterceptor}

\* Line 69: cfg.set_request_time(StaticTimeSource::new(t0))
RequestTimeReset(rt, t0) == {t0}

\* Mutant: the advance interceptor stores the time it read.
RequestTimeAdvanceKeep(rt, d) == rt

\* Lines 83-85: the request time read, moved forward by self.0 and stored.
\* request_time() is unwrapped: rt is never empty here.
RequestTimeAdvance(rt, d) == {t + d : t \in rt}

\* Mutant: the closure writes only the user-agent header.
MutateClosureOneHeader(hs) == [hs EXCEPT !["user-agent"] = "test"]

\* The closure of lines 152-163: both headers set from AwsUserAgent::for_tests().
MutateClosure(hs) ==
    [[hs EXCEPT !["user-agent"] = "test"] EXCEPT !["x-amz-user-agent"] = "test"]

\* util::TestUserAgentInterceptor on the headers of the request.
UserAgentInterceptorHeaders(hs) == [h \in HeaderNames |-> "test"]

\* modify_before_signing of hook on the state st = [time, headers].
ModifyBeforeSigning(hook, st) ==
    [time |-> CASE hook.kind = "reset" -> RequestTimeReset(st.time, hook.arg)
                [] hook.kind = "advance" -> RequestTimeAdvance(st.time, hook.arg)
                [] OTHER -> st.time,
     headers |-> CASE hook.kind = "mutate" -> MutateClosure(st.headers)
                   [] hook.kind = "user_agent" -> UserAgentInterceptorHeaders(st.headers)
                   [] OTHER -> st.headers]

\* The hooks of one call in the order they run: client scope, then call
\* scope, each in registration order.
Pipeline(client, call) ==
    [i \in 1 .. Len(client) + Len(call) |->
        IF i <= Len(client)
        THEN [scope |-> "client", pos |-> i, hook |-> client[i]]
        ELSE [scope |-> "call", pos |-> i - Len(client), hook |-> call[i - Len(client)]]]

NoRequest == [time |-> {}, headers |-> DefaultHeaders]

\* A client Config under construction, no call made.
NewClient ==
    /\ client_hooks = <<>>
    /\ call_hooks = <<>>
    /\ phase = "config"
    /\ idx = 1
    /\ request_time = {}
    /\ headers = DefaultHeaders
    /\ ran = <<>>
    /\ sent = NoRequest
    /\ fixup = {}

\* Config::builder().interceptor(hook): a client-scope registration.
ConfigInterceptor(hook) ==
    /\ phase = "config"
    /\ Len(client_hooks) + Len(call_hooks) < MaxHooks
    /\ client_hooks' = Append(client_hooks, hook)
    /\ UNCHANGED <<call_hooks, phase, idx, request_time, headers, ran, sent, fixup>>
    /\ UNCHANGED <<bucketVars, gateVars, presignVars, pluginVars>>

\* Client::from_conf(config) and the first operation's customize().
Customize ==
    /\ phase = "config"
    /\ phase' = "customize"
    /\ UNCHANGED <<client_hooks, call_hooks, idx, request_time, headers, ran, sent, fixup>>
    /\ UNCHANGED <<bucketVars, gateVars, presignVars, pluginVars>>

\* customize().interceptor(hook): a call-scope registration.
CallInterceptor(hook) ==
    /\ phase = "customize"
    /\ Len(client_hooks) + Len(call_hooks) < MaxHooks
    /\ call_hooks' = Append(call_hooks, hook)
    /\ UNCHANGED <<client_hooks, phase, idx, request_time, headers, ran, sent, fixup>>
    /\ UNCHANGED <<bucketVars, gateVars, presignVars, pluginVars>>

\* customize().mutate_request(closure): the closure joins the call's hooks.
MutateRequest ==
    /\ phase = "customize"
    /\ Len(client_hooks) + Len(call_hooks) < MaxHooks
    /\ call_hooks' = Append(call_hooks, MutateRequestClosure)
    /\ UNCHANGED <<client_hooks, phase, idx, request_time, headers, ran, sent, fixup>>
    /\ UNCHANGED <<bucketVars, gateVars, presignVars, pluginVars>>

\* send_orchestrator_with_plugin(Some(fixup)): the FixupPlugin puts its
\* timestamp in the ConfigBag as the request time, and the call reaches the
\* before-signing phase.
SendOrchestrator(timestamp) ==
    /\ phase = "customize"
    /\ phase' = "signing"
    /\ fixup' = {timestamp}
    /\ request_time' = {timestamp}
    /\ headers' = DefaultHeaders
    /\ idx' = 1
    /\ ran' = <<>>
    /\ sent' = NoRequest
    /\ UNCHANGED <<client_hooks, call_hooks>>
    /\ UNCHANGED <<bucketVars, gateVars, presignVars, pluginVars>>

\* The next hook's modify_before_signing runs.
RunHook ==
    /\ phase = "signing"
    /\ idx <= Len(Pipeline(client_hooks, call_hooks))
    /\ LET entry == Pipeline(client_hooks, call_hooks)[idx]
           st == ModifyBeforeSigning(entry.hook,
                                     [time |-> request_time, headers |-> headers])
       IN  /\ request_time' = st.time
           /\ headers' = st.headers
           /\ ran' = Append(ran, <<entry.scope, entry.pos>>)
    /\ idx' = idx + 1
    /\ UNCHANGED <<client_hooks, call_hooks, phase, sent, fixup>>
    /\ UNCHANGED <<bucketVars, gateVars, presignVars, pluginVars>>

\* Every hook has run: the request is signed with the request time of the
\* ConfigBag and handed to the connector.
Transmit ==
    /\ phase = "signing"
    /\ idx > Len(Pipeline(client_hooks, call_hooks))
    /\ sent' = [time |-> request_time, headers |-> headers]
    /\ phase' = "sent"
    /\ UNCHANGED <<client_hooks, call_hooks, idx, request_time, headers, ran, fixup>>
    /\ UNCHANGED <<bucketVars, gateVars, presignVars, pluginVars>>

\* The call is over: its customizations are dropped, the client is kept and
\* the next operation is customized.
CallDone ==
    /\ phase = "sent"
    /\ call_hooks' = <<>>
    /\ phase' = "customize"
    /\ idx' = 1
    /\ request_time' = {}
    /\ headers' = DefaultHeaders
    /\ ran' = <<>>
    /\ sent' = NoRequest
    /\ fixup' = {}
    /\ UNCHANGED client_hooks
    /\ UNCHANGED <<bucketVars, gateVars, presignVars, pluginVars>>

(***************************************************************************)
(* StandardTokenBucketRuntimePlugin and the layers of config()             *)
(***************************************************************************)
\* At most this many layers are taken from one plugin.
MaxLayers == 3

\* Token counts a plugin is built with: StandardTokenBucketRuntimePlugin::new.
PluginCapacities == {0, 4, 5, 12, 21}

\* Arc::new(Semaphore::new(n)), lines 58 and 69: a new allocation, whose
\* pointer is the number of allocations made before it.
ArcNewSemaphore(heap, n) ==
    [heap |-> heap @@ (Cardinality(DOMAIN heap) :> n), ptr |-> Cardinality(DOMAIN heap)]

\* StandardTokenBucket::new(initial_quota), lines 67-74, on the heap.
StandardTokenBucketNew(heap, initial_quota) ==
    LET a == ArcNewSemaphore(heap, initial_quota)
    IN  [heap |-> a.heap,
         bucket |-> [semaphore |-> a.ptr, max_permits |-> initial_quota,
                     retry_cost |-> RETRY_COST,
                     timeout_retry_cost |-> RETRY_TIMEOUT_COST]]

\* Mutant: the clone gets a semaphore of its own, with the permits of the
\* original at the time of the clone.
CloneBucketDeep(heap, b) ==
    LET a == ArcNewSemaphore(heap, heap[b.semaphore])
    IN  [heap |-> a.heap, bucket |-> [b EXCEPT !.semaphore = a.ptr]]

\* derive(Clone) of line 43 on the fields of lines 45-48: Arc::clone copies
\* the pointer, the numbers are copied; nothing is allocated.
CloneBucket(heap, b) == [heap |-> heap, bucket |-> b]

\* Semaphore::available_permits of the bucket's semaphore.
AvailablePermits(heap, b) == heap[b.semaphore]

NoPluginCall == [op |-> "none", layer |-> 0, granted |-> FALSE, cost |-> 0, before |-> 0]

\* StandardTokenBucketRuntimePlugin::new(initial_tokens), lines 22-26: no
\* layer taken yet.
NewPlugin(initial_tokens) ==
    LET n == StandardTokenBucketNew(<<>>, initial_tokens)
    IN  /\ token_bucket = n.bucket
        /\ semaphores = n.heap
        /\ layers = <<>>
        /\ pret = NoPluginCall

\* config(), lines 30-35: a layer named "standard token bucket" holding a
\* clone of the plugin's bucket, frozen.
Config ==
    /\ Len(layers) < MaxLayers
    /\ LET c == CloneBucket(semaphores, token_bucket)
       IN  /\ semaphores' = c.heap
           /\ layers' = Append(layers, [name |-> "standard token bucket",
                                        bucket |-> c.bucket])
    /\ pret' = [op |-> "config", layer |-> Len(layers) + 1, granted |-> FALSE,
                cost |-> 0, before |-> AvailablePermits(semaphores, token_bucket)]
    /\ UNCHANGED token_bucket
    /\ UNCHANGED <<bucketVars, gateVars, presignVars, callVars>>

\* acquire(err) on the bucket loaded from layer i, lines 76-87.
LayerAcquire(i, err) ==
    /\ i \in 1 .. Len(layers)
    /\ LET b == layers[i].bucket
           cost == IF err = "TransientError" THEN b.timeout_retry_cost
                                              ELSE b.retry_cost
           r == TryAcquireMany(AvailablePermits(semaphores, b), cost)
       IN  /\ semaphores' = [semaphores EXCEPT ![b.semaphore] = r.avail]
           /\ pret' = [op |-> "acquire", layer |-> i, granted |-> r.ok,
                       cost |-> cost, before |-> AvailablePermits(semaphores, b)]
    /\ UNCHANGED <<token_bucket, layers>>
    /\ UNCHANGED <<bucketVars, gateVars, presignVars, callVars>>

\* regenerate_a_token() on the bucket loaded from layer i, lines 89-94.
LayerRegenerate(i) ==
    /\ i \in 1 .. Len(layers)
    /\ LET b == layers[i].bucket
           avail == AvailablePermits(semaphores, b)
       IN  /\ semaphores' =
                 IF NeedsToken(avail, b.max_permits)
                 THEN [semaphores EXCEPT ![b.semaphore] = AddPermits(avail, b.max_permits)]
                 ELSE semaphores
           /\ pret' = [op |-> "regenerate", layer |-> i, granted |-> FALSE,
                       cost |-> 0, before |-> avail]
    /\ UNCHANGED <<token_bucket, layers>>
    /\ UNCHANGED <<bucketVars, gateVars, presignVars, callVars>>

\* The layers a plugin hands out, used in any order.
InitPlugin ==
    /\ NewBucket(DEFAULT_CAPACITY)
    /\ NewGate({}, 0)
    /\ NewPresign
    /\ NewClient
    /\ \E C \in PluginCapacities : NewPlugin(C)

NextPlugin ==
    \/ Config
    \/ \E i \in 1 .. MaxLayers, err \in ErrorKinds : LayerAcquire(i, err)
    \/ \E i \in 1 .. MaxLayers : LayerRegenerate(i)

SpecPlugin == InitPlugin /\ [][NextPlugin]_vars

Init ==
    /\ \E C \in Capacities : NewBucket(C)
    /\ NewGate({}, 0)
    /\ NewPresign
    /\ NewClient
    /\ NewPlugin(DEFAULT_CAPACITY)

Next ==
    \/ \E err \in ErrorKinds : Acquire(err)
    \/ Regenerate

Spec == Init /\ [][Next]_vars

\* Calls one after the other, grants dropped at any point between them.
NextDrop ==
    \/ \E err \in ErrorKinds : Acquire(err)
    \/ Regenerate
    \/ \E cost \in Costs : DropGrant(cost)

SpecDrop == Init /\ [][NextDrop]_vars

\* Several callers on one shared bucket.
NextShared ==
    \/ \E c \in Callers, err \in ErrorKinds : CAcquire(c, err)
    \/ \E c \in Callers : CRegenCheck(c)
    \/ \E c \in Callers : CRegenAdd(c)

SpecShared == Init /\ [][NextShared]_vars

\* One producer task and one controller, as in test_sleep_gate.
InitGate ==
    /\ NewBucket(DEFAULT_CAPACITY)
    /\ \E start \in StartTimes : NewGate({"p1"}, start)
    /\ NewPresign
    /\ NewClient
    /\ NewPlugin(DEFAULT_CAPACITY)

\* Every producer holds a clone of the one ControlledSleep.
InitClones ==
    /\ NewBucket(DEFAULT_CAPACITY)
    /\ \E start \in StartTimes : NewGate(Producers, start)
    /\ NewPresign
    /\ NewClient
    /\ NewPlugin(DEFAULT_CAPACITY)

NextGate ==
    \/ \E p \in tasks, d \in Durations : SleepCall(p, d)
    \/ \E p \in tasks : SleepAssert(p)
    \/ \E p \in tasks : SleepStoreDuration(p)
    \/ \E p \in tasks : SleepArm(p)
    \/ \E p \in tasks : SleepBarrier(p)
    \/ \E p \in tasks : SleepWake(p)
    \/ \E p \in tasks : SleepLog(p)
    \/ \E p \in tasks : SleepResume(p)
    \/ \E p \in tasks : ProducerNow(p)
    \/ ExpectSleep
    \/ ExpectWake
    \/ ExpectTimeout
    \/ ExpectTakeDuration
    \/ ExpectTakeGuard
    \/ AllowProgress
    \/ DropCapturedSleep

SpecGate == InitGate /\ [][NextGate]_vars

SpecClones == InitClones /\ [][NextGate]_vars

\* The runtime keeps polling a task that can make progress: every step
\* inside sleep(..).await and inside expect_sleep is taken once it can be,
\* the one-second timer of line 147 included. Whether the producer sleeps
\* again, and whether the controller calls expect_sleep or lets go of a
\* CapturedSleep, is up to the test.
GateFairness ==
    /\ \A p \in Producers :
          /\ WF_vars(SleepAssert(p))
          /\ WF_vars(SleepStoreDuration(p))
          /\ WF_vars(SleepArm(p))
          /\ WF_vars(SleepBarrier(p))
          /\ WF_vars(SleepWake(p))
          /\ WF_vars(SleepLog(p))
          /\ WF_vars(SleepResume(p))
          /\ WF_vars(ProducerNow(p))
    /\ WF_vars(ExpectWake)
    /\ WF_vars(ExpectTimeout)
    /\ WF_vars(ExpectTakeDuration)
    /\ WF_vars(ExpectTakeGuard)

InitPresign ==
    /\ NewBucket(DEFAULT_CAPACITY)
    /\ NewGate({}, 0)
    /\ NewPresign
    /\ NewClient
    /\ NewPlugin(DEFAULT_CAPACITY)

Options(S) == {{}} \cup {{x} : x \in S}

NextPresign ==
    \/ PresignBuilder
    \/ \E t \in PresignStartTimes : BuilderStartTime(t)
    \/ \E opt \in Options(PresignStartTimes) : BuilderSetStartTime(opt)
    \/ \E d \in ExpiresIns : BuilderExpiresIn(d)
    \/ \E opt \in Options(ExpiresIns) : BuilderSetExpiresIn(opt)
    \/ Build
    \/ \E d \in ExpiresIns : ConfigExpiresIn(d)

SpecPresign == InitPresign /\ [][NextPresign]_vars

InitCall ==
    /\ NewBucket(DEFAULT_CAPACITY)
    /\ NewGate({}, 0)
    /\ NewPresign
    /\ NewClient
    /\ NewPlugin(DEFAULT_CAPACITY)

NextCall ==
    \/ \E hook \in Interceptors : ConfigInterceptor(hook)
    \/ Customize
    \/ \E hook \in Interceptors : CallInterceptor(hook)
    \/ MutateRequest
    \/ \E timestamp \in FixupTimestamps : SendOrchestrator(timestamp)
    \/ RunHook
    \/ Transmit
    \/ CallDone

SpecCall == InitCall /\ [][NextCall]_vars

SpecGateFair == InitGate /\ [][NextGate]_vars /\ GateFairness

(***************************************************************************)
(* Claims about the token bucket                                           *)
(***************************************************************************)
HeldTotal == RETRY_COST * held[RETRY_COST] + RETRY_TIMEOUT_COST * held[RETRY_TIMEOUT_COST]

\* C1: with calls running one after the other and every grant kept, the
\* available permits stay within 0..C in every state, and each acquire that
\* returns a grant lowers the available permits by exactly the cost of the
\* attempt.
C1_InRangeAndExactCost ==
    /\ [](permits \in 0 .. max_permits)
    /\ [][(ret'.op = "acquire" /\ ret'.granted)
            => permits' = permits - AcquireCost(ret'.err)]_vars

\* A grant was handed out after some regeneration, in a partly used bucket.
C1_Witness ==
    /\ ret.op = "acquire" /\ ret.granted
    /\ regenerated > 0
    /\ permits = ret.before - ret.cost
    /\ permits < max_permits

\* C2: with several callers on one bucket no update is lost (what is
\* available plus what is held is the capacity plus what was regenerated) and
\* the available permits are never negative and never above the capacity.
C2_SharedNeverAboveCapacity ==
    /\ permits + HeldTotal = max_permits + regenerated
    /\ permits >= 0
    /\ permits <= max_permits

\* C3: an acquire whose cost exceeds the available permits returns no grant
\* and leaves the permits and the grants as they were; acquire is never
\* blocked, whatever the state of the bucket.
C3_FailsAtOnceNoPartialGrant ==
    /\ [](\A err \in ErrorKinds : ENABLED Acquire(err))
    /\ [][(ret'.op = "acquire" /\ AcquireCost(ret'.err) > permits)
            => (~ret'.granted /\ permits' = permits /\ held' = held)]_vars

\* An attempt was refused although some permits, fewer than its cost, remained.
C3_Witness ==
    /\ ret.op = "acquire" /\ ~ret.granted
    /\ ret.before > 0 /\ ret.before < ret.cost
    /\ permits = ret.before

\* C4: acquire charges 10 (twice the retry cost) for a TransientError and 5
\* for every other error kind, and returns a grant exactly when that cost is
\* at most the available permits.
C4_CostByKind ==
    /\ RETRY_TIMEOUT_COST = 2 * RETRY_COST
    /\ [][ret'.op = "acquire" =>
            LET cost == IF ret'.err = "TransientError" THEN 10 ELSE 5
            IN  /\ ret'.granted <=> (cost <= permits)
                /\ permits' = IF cost <= permits THEN permits - cost ELSE permits]_vars

\* A TransientError attempt was refused where any other kind would have been
\* granted.
C4_Witness ==
    /\ ret.op = "acquire" /\ ret.err = "TransientError" /\ ~ret.granted
    /\ permits >= 5 /\ permits < 10

\* Nothing was regenerated and no grant of another cost was taken.
OnlyCost(c) == regenerated = 0 /\ \A c2 \in Costs \ {c} : held[c2] = 0

RefusedAt(c) == ret.op = "acquire" /\ ret.cost = c /\ ~ret.granted

\* C5: from a full bucket, all grants kept and nothing regenerated, exactly
\* floor(C / cost) acquisitions of one cost are granted before one is
\* refused: 100 of cost 5 for C = 500, 2 of cost 10 for C = 20.
C5_ExhaustedAfterFloor ==
    /\ \A c \in Costs : OnlyCost(c) =>
          /\ held[c] <= max_permits \div c
          /\ held[c] < max_permits \div c => permits >= c
          /\ RefusedAt(c) => held[c] = max_permits \div c
    /\ (max_permits = 500 /\ OnlyCost(5) /\ RefusedAt(5)) => held[5] = 100
    /\ (max_permits = 20 /\ OnlyCost(10) /\ RefusedAt(10)) => held[10] = 2

\* The default bucket: the attempt after 100 plain grants was refused.
C5_Witness ==
    /\ max_permits = DEFAULT_CAPACITY
    /\ OnlyCost(RETRY_COST) /\ RefusedAt(RETRY_COST)
    /\ held[RETRY_COST] = 100

\* C6: one regenerate_a_token call raises the available permits by exactly 1
\* below the capacity and leaves them alone at the capacity.
C6_RegeneratesOne ==
    [][ret'.op = "regenerate" =>
         permits' = IF permits < max_permits THEN permits + 1 ELSE permits]_vars

\* One token came back into an exhausted bucket of a larger capacity.
C6_Witness ==
    /\ ret.op = "regenerate"
    /\ ret.before = 0 /\ permits = 1
    /\ max_permits > 1

(***************************************************************************)
(* Claims about the sleep gate                                             *)
(***************************************************************************)
\* The sleeps producer p has advanced past.
Completed(p) ==
    IF ppc[p] \in {"resumed", "run"} THEN Len(pdurs[p]) ELSE Len(pdurs[p]) - 1

\* The channels of the CapturedSleeps expect_sleep has returned.
ReturnedChannels == {returned[i].tx : i \in 1 .. Len(returned)}

\* C7: with one producer and one controller, every sleep the producer has
\* advanced past was returned as a CapturedSleep by expect_sleep, and that
\* CapturedSleep was released or dropped, before the producer advanced.
C7_NoProgressBeforeRelease ==
    \A p \in tasks : \A k \in 1 .. Completed(p) :
        /\ <<p, k>> \in ReturnedChannels
        /\ <<p, k>> \in released

\* The producer is past its second sleep.
C7_Witness ==
    /\ ppc["p1"] = "resumed"
    /\ Len(pdurs["p1"]) = 2
    /\ <<"p1", 2>> \in released

\* C8 as claimed: while the controller holds a CapturedSleep, now() is still
\* the time the producer read before the sleep.
C8_HeldMeansPreSleepTime ==
    \A cs \in captured : Now = pnow[cs.tx[1]]

\* C8, amended: while the controller holds a CapturedSleep for a sleep of
\* duration D, now() is the time read before the sleep as long as the producer
\* has not run its log push, and that time plus D once it has; the push
\* follows the barrier and does not wait for the release.
C8_HeldMeansPreSleepOrLogged ==
    \A cs \in captured :
        LET p == cs.tx[1]
        IN  /\ cs.tx = Channel(p)
            /\ cs.dur = Duration(p)
            /\ ppc[p] \in {"barrier_wait", "push", "rx"}
            /\ Now = IF ppc[p] = "rx" THEN pnow[p] + cs.dur ELSE pnow[p]

\* The CapturedSleep is still held and now() already includes its duration.
C8_Witness ==
    \E cs \in captured :
        /\ gpc = "holding"
        /\ cs.tx \notin dropped
        /\ Now = pnow[cs.tx[1]] + cs.dur

\* The sleep producer p is in passed the assertion and its CapturedSleep has
\* not been released.
Accepted(p) ==
    /\ ppc[p] \in {"store_dur", "store_tx", "barrier", "barrier_wait", "push", "rx"}
    /\ Channel(p) \notin released

\* C9: of two sleeps on clones of one ControlledSleep that overlap between
\* the call of one and the release of its CapturedSleep, the second fails
\* the assertion: never are two unreleased sleeps both past the assertion.
C9_SecondSleepAsserts ==
    \A p \in tasks, q \in tasks : p # q => ~(Accepted(p) /\ Accepted(q))

\* The case without a race: the first sleep is captured and held when the
\* second sleep runs its assertion and passes it.
C9_AcceptedWhileHeld ==
    \E cs \in captured, q \in tasks :
        /\ gpc = "holding"
        /\ q # cs.tx[1]
        /\ ppc[q] = "barrier_wait"
        /\ ppc[cs.tx[1]] = "rx"

\* C10 as claimed: once every sleep the producer issued has been captured
\* and released, now() is the start time plus all their durations.
C10_ReleasedMeansSummed ==
    \A p \in tasks :
        (/\ Len(pdurs[p]) >= 1
         /\ \A k \in 1 .. Len(pdurs[p]) :
               <<p, k>> \in ReturnedChannels /\ <<p, k>> \in released)
        => Now = start_time + SumDurations(pdurs[p])

\* C10, amended: once the producer has resumed from the sleeps it issued,
\* now() is the start time plus all their durations, and that is what the
\* producer reads on resuming from each of them.
C10_ResumedMeansSummed ==
    \A p \in tasks :
        /\ ppc[p] \in {"resumed", "run"}
              => Now = start_time + SumDurations(pdurs[p])
        /\ ppc[p] = "run" => pnow[p] = start_time + SumDurations(pdurs[p])

\* The producer resumed from three sleeps of 1 s, 2 s and 1 s.
C10_Witness ==
    /\ ppc["p1"] = "run"
    /\ pdurs["p1"] = <<1, 2, 1>>
    /\ start_time = 1000
    /\ pnow["p1"] = 1004
    /\ \A k \in 1 .. 3 : <<"p1", k>> \in released

\* C11: with one producer and one controller, the CapturedSleep returned by
\* the k-th expect_sleep carries the duration (and the channel) of the
\* producer's k-th sleep call, and the pending slot is empty once
\* expect_sleep has returned.
C11_KthCaptureReportsKthDuration ==
    /\ Len(returned) <= Len(pdurs["p1"])
    /\ \A k \in 1 .. Len(returned) :
          /\ returned[k].dur = pdurs["p1"][k]
          /\ returned[k].tx = <<"p1", k>>
    /\ gpc = "holding" => pending = {}

\* The second expect_sleep returned, after sleeps of 1 s and then 2 s.
C11_Witness ==
    /\ gpc = "holding"
    /\ Len(returned) = 2
    /\ returned[1].dur = 1 /\ returned[2].dur = 2
    /\ pending = {}

\* The sleeps of producer p that the barrier has let pass.
PassedOf(p) ==
    IF \/ ppc[p] \in {"assert", "store_dur", "store_tx", "barrier", "panicked"}
       \/ ppc[p] = "barrier_wait" /\ p \notin woken
    THEN Len(pdurs[p]) - 1
    ELSE Len(pdurs[p])

\* The sleeps, of all producers, that the barrier has let pass.
Passed == PassedOf("p1") + PassedOf("p2")

\* The expect_sleep calls that have reached the barrier, returned or not.
ExpectCalls ==
    Len(returned) + (IF gpc \in {"wait", "take_dur", "take_guard", "panicked"}
                     THEN 1 ELSE 0)

\* C12 as claimed: in every state as many expect_sleep calls have returned
\* as sleep calls have passed the barrier.
C12_ReturnedEqualsPassed == Len(returned) = Passed

\* C12, amended: with one producer and one controller, expect_sleep returns
\* only after a sleep passed the barrier, a sleep passes the barrier only
\* with an expect_sleep call that reached it, and the sleeps passed are as
\* many as the expect_sleep calls returned whenever the controller is outside
\* expect_sleep, and at most one more while it is inside (between the barrier
\* and the return, or after the timeout panic).
C12_PairedOneToOne ==
    /\ Len(returned) <= Passed
    /\ Passed <= ExpectCalls
    /\ Passed <= Len(returned) + 1
    /\ gpc \in {"idle", "holding"} => Passed = Len(returned)

\* Two sleeps passed the barrier and two expect_sleep calls returned.
C12_Witness ==
    /\ gpc = "holding"
    /\ Len(returned) = 2
    /\ Passed = 2

\* C20: with one producer and one controller, expect_sleep finds both slots
\* filled when it passes the barrier: the duration it takes is the pending
\* one, never the 123456 s default, the Sender slot is never empty (the
\* unwrap of line 160 never panics, the mutex is never poisoned), and no
\* CapturedSleep returned reports 123456 s.
C20_NeverSentinelNeverEmpty ==
    /\ gpc = "take_dur" => pending # {} /\ advance_guard # {}
    /\ gpc = "take_guard" => gdur # SENTINEL_SECS /\ advance_guard # {}
    /\ \A k \in 1 .. Len(returned) : returned[k].dur # SENTINEL_SECS
    /\ ~guard_poisoned

\* expect_sleep returned three times, each time with a sleep's duration.
C20_Witness ==
    /\ gpc = "holding"
    /\ Len(returned) = MaxSleeps
    /\ \A k \in 1 .. Len(returned) : returned[k].dur \in Durations

\* The controller does its part: it calls expect_sleep again and lets go of
\* every CapturedSleep it holds.
ControllerMeets == WF_vars(ExpectSleep) /\ WF_vars(Release)

\* C13: once the CapturedSleep of a sleep has been released (allow_progress
\* or drop), the producer blocked in that sleep eventually resumes; and when
\* the controller keeps meeting sleeps with expect_sleep and a release, every
\* sleep of the producer's finite series eventually completes, unless an
\* expect_sleep ran into its timeout.
C13_ReleasedEventuallyResumes ==
    /\ \A k \in 1 .. MaxSleeps :
          (<<"p1", k>> \in released) ~> (Completed("p1") >= k)
    /\ ControllerMeets =>
          \A k \in 1 .. MaxSleeps :
              (Len(pdurs["p1"]) >= k) ~> (Completed("p1") >= k \/ gpc = "panicked")

\* The last sleep of the series was released and the producer has resumed.
C13_Witness ==
    /\ ppc["p1"] = "resumed"
    /\ Len(pdurs["p1"]) = MaxSleeps
    /\ <<"p1", MaxSleeps>> \in released

\* C14: an expect_sleep call that waits at the barrier does not wait for
\* ever: it ends in the timeout panic unless a sleep reaches the barrier;
\* while no sleep has reached the barrier the only way out of the wait is
\* the timeout panic, which returns no CapturedSleep; and a controller that
\* panicked holds no CapturedSleep.
C14_NoSleepMeansTimeout ==
    /\ (gpc = "wait") ~> (gpc = "panicked" \/ Passed > Len(returned))
    /\ [][(gpc = "wait" /\ Gate \notin woken /\ gpc' # "wait")
            => (gpc' = "panicked" /\ ~guard_poisoned'
                /\ returned' = returned /\ captured' = captured)]_vars
    /\ [](gpc = "panicked" => captured = {})

\* expect_sleep was called with no sleep issued at all and timed out.
C14_Witness ==
    /\ gpc = "panicked"
    /\ ~guard_poisoned
    /\ SleepCalls = 0
    /\ returned = <<>>

\* C19: with any number of tasks calling sleep on clones of one
\* ControlledSleep, every CapturedSleep returned carries the duration and
\* the Sender of one and the same sleep call, and a producer gets past a
\* sleep only once the CapturedSleep that captured it was released, never
\* because its Sender was overwritten in advance_guard.
C19_CaptureOfOneSleep ==
    /\ \A i \in 1 .. Len(returned) :
          returned[i].dur = pdurs[returned[i].tx[1]][returned[i].tx[2]]
    /\ \A p \in tasks : \A k \in 1 .. Completed(p) : <<p, k>> \in released

\* A CapturedSleep was returned while two producers were inside sleep.
C19_Witness ==
    /\ Len(returned) >= 1
    /\ \A p \in Producers : Len(pdurs[p]) >= 1

\* C18: dropping a grant gives back exactly the cost acquire subtracted, and
\* under any sequence of acquire, regenerate_a_token and grant drops the
\* available permits never exceed the capacity.
C18_DropReturnsCostWithinCapacity ==
    /\ ret.op = "drop" => permits = ret.before + ret.cost
    /\ permits <= max_permits

\* A grant was dropped after regenerate_a_token had put permits back.
C18_Witness ==
    /\ ret.op = "drop"
    /\ regenerated > 0

\* C21: the time ManualTimeSource::now() reports never lies before the start
\* time and moves only by the durations of sleeps that passed the barrier
\* in a rendezvous with expect_sleep: every duration recorded in the log
\* belongs to a sleep that an expect_sleep call met at the barrier.
C21_TimeMovesOnlyAtRendezvous ==
    /\ Now >= start_time
    /\ Len(log) <= ExpectCalls

\* Two sleeps were recorded, so the time moved twice.
C21_Witness ==
    /\ Len(log) = 2
    /\ Now > start_time

(***************************************************************************)
(* Claims about the presigning configuration                               *)
(***************************************************************************)
\* The outcome the claim gives for a builder whose expires_in is ex.
Outcome(res) == <<res.ok, res.kind, res.expires_in>>

\* C16: build succeeds, keeping the duration, for every expires_in of at
\* most 604800 s, fails with ExpiresInDurationTooLong for every longer one
\* and with ExpiresInRequired when expires_in is unset, whatever start_time
\* holds; and PresigningConfig::expires_in(d) has the outcome of
\* builder().expires_in(d).build().
C16_BuildByExpiresIn ==
    /\ built.via = "build" =>
          LET ex == built.of.expires_in
          IN  /\ ex = {} => ~built.res.ok /\ built.res.kind = "ExpiresInRequired"
              /\ \A d \in ex :
                    IF d.secs < 604800 \/ (d.secs = 604800 /\ d.nanos = 0)
                    THEN built.res.ok /\ built.res.expires_in = d
                    ELSE ~built.res.ok /\ built.res.kind = "ExpiresInDurationTooLong"
    /\ (/\ built.via = "build"
        /\ shortcut.expires_in # {}
        /\ built.of = ExpiresIn(BuilderDefault, CHOOSE d \in shortcut.expires_in : TRUE))
          => Outcome(shortcut.res) = Outcome(built.res)

\* A build at exactly one week with a start time set succeeded, and the
\* shortcut was given the same duration.
C16_Witness ==
    /\ built.via = "build"
    /\ built.of = [start_time |-> {1000}, expires_in |-> {Dur(604800, 0)}]
    /\ built.res.ok
    /\ built.res.start_time = 1000
    /\ shortcut.expires_in = {Dur(604800, 0)}

(***************************************************************************)
(* Claims about the interceptors of a call                                 *)
(***************************************************************************)
\* The hooks of hs that touch the request time.
TimeHooks(hs) == SelectSeq(hs, LAMBDA h : h.kind \in {"reset", "advance"})

\* C15: before signing, every client-scope interceptor runs before every
\* call-scope one, each group in registration order, and every hook has run
\* when the request is transmitted; so with a client-scope hook that sets
\* the request time to t0 and a call-scope hook that advances it by d, the
\* request is transmitted with the time t0 + d.
C15_ClientScopeFirst ==
    /\ \A i \in 1 .. Len(ran) :
          ran[i] = IF i <= Len(client_hooks)
                   THEN <<"client", i>>
                   ELSE <<"call", i - Len(client_hooks)>>
    /\ phase = "sent" => Len(ran) = Len(client_hooks) + Len(call_hooks)
    /\ \A t0 \in ResetTimes, d \in Advances :
          (/\ phase = "sent"
           /\ TimeHooks(client_hooks) = <<RequestTimeResetInterceptor(t0)>>
           /\ TimeHooks(call_hooks) = <<RequestTimeAdvanceInterceptor(d)>>)
             => sent.time = {t0 + d}

\* The call of interceptor_priority, with a reset to 50 s and an advance of
\* 7 s, was transmitted with the time 57 s.
C15_Witness ==
    /\ phase = "sent"
    /\ client_hooks = <<TestUserAgentInterceptor, RequestTimeResetInterceptor(50)>>
    /\ call_hooks = <<RequestTimeAdvanceInterceptor(7)>>
    /\ fixup = {200}
    /\ sent.time = {57}

\* The call's hooks with every mutate_request closure replaced by the
\* interceptor doing the same header mutation.
WithInterceptor(hs) ==
    [i \in 1 .. Len(hs) |->
        IF hs[i] = MutateRequestClosure THEN TestUserAgentInterceptor ELSE hs[i]]

RECURSIVE RunAll(_, _, _)
\* The hooks of pipeline from position i on, run on the state st.
RunAll(pipeline, i, st) ==
    IF i > Len(pipeline) THEN st
    ELSE RunAll(pipeline, i + 1, ModifyBeforeSigning(pipeline[i].hook, st))

SeenThrough(j) == AvailablePermits(semaphores, layers[j].bucket)

\* C22: every layer config() returned holds a clone of the plugin's bucket
\* on the one semaphore the plugin allocated; what an acquire or a
\* regenerate_a_token through one layer does to the available permits is
\* seen through every layer, and config() leaves the available permits as
\* they were.
C22_LayersShareOnePool ==
    /\ \A i \in 1 .. Len(layers) : layers[i].bucket = token_bucket
    /\ DOMAIN semaphores = {token_bucket.semaphore}
    /\ pret.op = "config" =>
          /\ AvailablePermits(semaphores, token_bucket) = pret.before
          /\ \A j \in 1 .. Len(layers) : SeenThrough(j) = pret.before
    /\ pret.op = "acquire" =>
          \A j \in 1 .. Len(layers) :
              SeenThrough(j) = pret.before - (IF pret.granted THEN pret.cost ELSE 0)
    /\ pret.op = "regenerate" =>
          \A j \in 1 .. Len(layers) :
              SeenThrough(j) = pret.before
                  + (IF pret.before < token_bucket.max_permits
                     THEN PERMIT_REGENERATION_AMOUNT ELSE 0)

\* A grant taken through the first of three layers is seen through the third.
C22_Witness ==
    /\ Len(layers) = 3
    /\ pret.op = "acquire" /\ pret.layer = 1 /\ pret.granted
    /\ SeenThrough(3) = pret.before - pret.cost
    /\ SeenThrough(3) < token_bucket.max_permits
=============================================================================
